---- MODULE Spec2Model ----
(***************************************************************************)
(* Orchestration and supervision layer of the 3-step video pipeline:       *)
(* the Celery worker (app/worker.py), the feedback route                   *)
(* (app/api/routes/tasks.py), PipelineOrchestrator.run / resume            *)
(* (pipeline/orchestrator.py), the QC graph nodes (pipeline/node_utils.py),*)
(* reflection_tool (pipeline/tools/reflection.py) and the supervisor graph *)
(* (pipeline/graph.py, pipeline/supervisor.py).                            *)
(* One pipeline instance (one task_id) is modelled: every Redis key, every *)
(* checkpoint and every channel is keyed by task_id, so instances do not   *)
(* share state.                                                            *)
(***************************************************************************)
EXTENDS Integers, Sequences, FiniteSets, TLC

\* ------------------------------------------------------------------ bounds
MaxFeedback == 1      \* submit_feedback calls; each one starts a resume task
MaxCount == 4         \* cap of the Redis retry counter (INCR is unbounded)
MaxSupRetry == 2      \* cap of retry_count[step] in the supervisor graph
MaxEvents == 2        \* events published on one channel
MaxPings == 1         \* keep-alive pings of one connection
MaxCalls == 2         \* load() / unload() calls of one loader
MaxExecutes == 2      \* execute calls of the Step Units on one manager
MaxChunks == 3        \* chunks of one streamed judgment
MaxPlans == 2         \* planning_tool calls of one instance

\* ------------------------------------------------------- program constants
EscalateAt == 2       \* reflection.py: "if current_retry >= 2"
RetryCeiling == 3     \* node_utils.py: "hit when QC fails 3 times"
ltx_num_frames == 33   \* step2_video_generation.py: ltx_config.get("num_frames", 33)
recursion_limit == 25 \* supersteps of one app.stream call (config sets no other limit)

RunTask == 0
ResumeTasks == 1..MaxFeedback
Tasks == {RunTask} \cup ResumeTasks

\* ------------------------------------------------------------ data values
IntV(i) == [t |-> "int", i |-> i, s |-> ""]
StrV(s) == [t |-> "str", i |-> 0, s |-> s]
BoolV(b) == [t |-> "bool", i |-> 0, s |-> IF b THEN "True" ELSE "False"]

\* str(value) as reflection_tool stores it in the config hash
StrOf(v) == IF v.t = "int" THEN ToString(v.i) ELSE v.s

\* a config_patch {"category": {"key": value}} as a set of entries
P_res == {[cat |-> "segmentation", key |-> "resolution", val |-> IntV(1024)]}
P_frames == {[cat |-> "video_generation", key |-> "num_frames", val |-> IntV(128)]}
Patches == {P_res, P_frames}

\* patches of the two other parameter types a decorated tool has, and every
\* patch whose field the config hash can hold
P_mode == {[cat |-> "segmentation", key |-> "prompt_mode", val |-> StrV("grid")]}
P_rife == {[cat |-> "postprocess", key |-> "rife_enabled", val |-> BoolV(FALSE)]}
ToolPatches == Patches \cup {P_mode, P_rife}

\* the "config_patch" member of the judged JSON: a dict, absent, or not a dict
DictPatch(p) == [kind |-> "dict", entries |-> p]
AbsentPatch == [kind |-> "absent", entries |-> {}]
NonDictPatch == [kind |-> "nondict", entries |-> {}]

\* what the judgment call can produce (llm.stream / llm.invoke, then the text)
\*   object      : a JSON object with a decision
\*   unparseable : text json.loads rejects, or a falsy JSON value ({} [] 0 null)
\*   nonobject   : valid truthy JSON that is not an object ([1], "ok", 7)
\*   raise       : llm.stream raises and the llm.invoke fallback raises too
ObjectOut(d, p) == [kind |-> "object", decision |-> d, patch |-> p]
OtherOut(k) == [kind |-> k, decision |-> "", patch |-> AbsentPatch]
JudgeOutputs ==
    {ObjectOut("retry", DictPatch(p)) : p \in Patches}
      \cup {ObjectOut("retry", AbsentPatch), ObjectOut("retry", NonDictPatch)}
      \cup {ObjectOut("proceed", AbsentPatch), ObjectOut("fail", AbsentPatch)}
      \cup {OtherOut("unparseable"), OtherOut("nonobject"), OtherOut("raise")}

\* the judgments drawn in the orchestration specification: every kind of
\* outcome, the retry verdicts without a config_patch
OrchOutputs == {out \in JudgeOutputs : out.patch.kind = "absent"}

ReflSteps == {"segmentation", "video_generation"}
ConfigFields == {e.cat \o ":" \o e.key : e \in UNION ToolPatches}

\* ------------------------------------------------------------- graph state
\* AgentState channels that decide control flow (orchestrator.py initial_state)
InitialState ==
    [main_layer |-> FALSE, raw_video |-> FALSE, final_video |-> FALSE,
     error |-> "none", last_qc_decision |-> "none", failed_step |-> "none",
     human_feedback |-> "none", user_guidance |-> "null"]

\* the questions a human_input_request can carry: the default of
\* _notify_human_input_required and the literal of human_input_node
DefaultQuestion == "default"
AskHumanQuestion == "fixed"

NoCheckpoint == [next |-> "none", vals |-> InitialState]

NoVerdict == [step |-> "none", judged |-> "none", decision |-> "none", patched |-> FALSE]

NoCall == [tool |-> "none", kwargs |-> {}, generated |-> 0]

\* model names given to VRAMManager, each with its own loader
Models == {"A", "B"}
\* what a chunk of the judgment's streamed text can be, and a reflection_tool
\* that has not reached its streaming loop
Tokens == {"{", "retry", "proceed", "}"}
NoStream == [at |-> "idle", step |-> "none", produced |-> <<>>, full_content |-> <<>>,
             events |-> <<>>, fallback |-> FALSE]

\* the feedback texts a user submits, and a planning_tool not yet called
\* (no status payload stored)
FeedbackTexts == {"brighter", "slower", "warmer"}
Plans == {"plan_a", "plan_b"}
NoPlan == [at |-> "idle", calls |-> 0, record |-> <<>>, submitted |-> "none", submits |-> 0,
           resume |-> "none", response |-> [kind |-> "none", feedback |-> ""]]

NoVramCall == [op |-> "none", name |-> "", calls |-> <<>>, raised |-> FALSE]

\* the Step Units, the names under which their execute registers its loaders,
\* and a manager on which no execute has run yet
StepUnits == {"step1", "step2", "step3"}
ModelsOf(step) ==
    CASE step = "step1" -> <<"qwen_layered">>
      [] step = "step2" -> <<"ltx2_pro">>
      [] step = "step3" -> <<"rife", "real_cugan">>
StepModels == {"qwen_layered", "ltx2_pro", "rife", "real_cugan"}
NoExecute == [step |-> "none", at |-> "idle", todo |-> <<>>, sub |-> 0, ex |-> 0, held |-> {},
              runs |-> 0]

\* websocket clients of the instance, and a connection not yet accepted
Subscribers == {"s1", "s2"}
NoConnection == [pc |-> "idle", seq_id |-> 0, inbox |-> <<>>, sent |-> <<>>, pings |-> 0,
                 since |-> 0]

VARIABLES
    pc,             \* position of each Celery task (run, resume_1..n)
    gs,             \* graph state held by each task's running stream
    arg,            \* feedback action each resume task was started with
    ckpt,           \* latest checkpoint of thread_id = task_id
    status,         \* the persisted status record task:{task_id}
    lastHumanEvent, \* latest human_input_* event published on the channel
    question,       \* the question of the latest human_input_request event
    lastEvent,      \* type of the latest event published on the channel, of any kind
    feedbackCalls,  \* number of submit_feedback calls so far
    retry_count,    \* Redis retry_count:{task_id}:{step}
    retry_history,  \* Redis list retry_history:{task_id}:{step}
    overrides,      \* Redis hash task:{task_id}:config
    verdict,        \* the latest reflection_tool call: what was judged, what it returned
    sup,            \* state of the supervisor graph (pipeline/graph.py)
    call,           \* the latest step tool invocation: the tool and the kwargs it ran with
    published,      \* number of events published on the channel task:{task_id}
    ws,             \* the websocket_task connections on that channel
    loaded_models,  \* VRAMManager.loaded_models: the registered names, in insertion order
    loaders,        \* how often load() / unload() of each loader has been called
    vlog,           \* the latest VRAMManager call: what it called, in order
    exec,           \* the Step Unit execute in progress and the loader attributes set
    stream,         \* the judgment call of reflection_tool: chunks, text, token events
    plan,           \* planning_tool's wait, with the status payload it polls
    supersteps      \* supersteps the stream of generate_video_task has run

orchVars == <<pc, gs, arg, ckpt, status, lastHumanEvent, question, lastEvent,
              feedbackCalls>>
gateVars == <<retry_count, retry_history, overrides, verdict>>
wsVars == <<published, ws>>
vramVars == <<loaded_models, loaders, vlog>>
stepVars == <<exec>>
judgeVars == <<stream>>
planVars == <<plan>>
loopVars == <<supersteps>>
sideVars == <<call, wsVars, vramVars, stepVars, judgeVars, planVars>>
vars == <<pc, gs, arg, ckpt, status, lastHumanEvent, question, lastEvent, feedbackCalls,
          retry_count, retry_history, overrides, verdict, sup, call, published, ws,
          loaded_models, loaders, vlog, exec, stream, plan, supersteps>>

\* ----------------------------------------------------------- status record
\* RedisManager.set_status writes a whole new payload: nothing of the previous
\* record survives (extra is the only place output_path / user_feedback live)
set_status(s, extra) == [status |-> s, extra |-> extra]
NoStatus == [status |-> "none", extra |-> "none"]

\* ------------------------------------------------------------- supervisor
\* the AgentState of the supervisor graph (pipeline/graph.py), and the node
\* that runs next
SupStepSet == {"step1", "step2", "step3"}
SupInit ==
    [node |-> "step1", current_step |-> "start", next_step |-> "vision",
     step_results |-> [s \in SupStepSet |-> "none"], error |-> FALSE,
     retry_count |-> [s \in SupStepSet |-> 0], config |-> {},
     decision |-> "none", fallback |-> FALSE]

\* the state after construction, the config hash holding ov
InitWith(ov) ==
    /\ pc = [t \in Tasks |-> "absent"]
    /\ gs = [t \in Tasks |-> InitialState]
    /\ arg = [t \in Tasks |-> "none"]
    /\ ckpt = NoCheckpoint
    /\ status = NoStatus
    /\ lastHumanEvent = "none"
    /\ question = "none"
    /\ lastEvent = "none"
    /\ feedbackCalls = 0
    /\ retry_count = [s \in ReflSteps |-> 0]
    /\ retry_history = [s \in ReflSteps |-> <<>>]
    /\ overrides = ov
    /\ verdict = NoVerdict
    /\ sup = SupInit
    /\ call = NoCall
    /\ published = 0
    /\ ws = [c \in Subscribers |-> NoConnection]
    /\ loaded_models = <<>>
    /\ loaders = [m \in Models \cup StepModels |-> [load_calls |-> 0, unload_calls |-> 0]]
    /\ vlog = NoVramCall
    /\ exec = NoExecute
    /\ stream = NoStream
    /\ plan = NoPlan
    /\ supersteps = 0

\* a new instance: no override is stored
Init == InitWith([f \in ConfigFields |-> ""])

\* ------------------------------------------------------- common/utils.py
\* extract_json_from_text followed by "if not result: result = {proceed}"
extract_json_from_text(out) ==
    IF out.kind = "unparseable" THEN "None"
    ELSE IF out.kind = "nonobject" THEN "nonobject"
    ELSE "object"

\* ------------------------------------------------- tools/reflection.py
\* the tool raises instead of returning a verdict
reflection_raises(out) ==
    \/ out.kind = "raise"                                  \* llm.invoke raises
    \/ extract_json_from_text(out) = "nonobject"           \* result.get on a non-dict

reflection_result(out) ==
    IF extract_json_from_text(out) = "None"
    THEN ObjectOut("proceed", AbsentPatch)
    ELSE out

reflection_decision(out) == reflection_result(out).decision

\* a call that raised returned no verdict
Raised(step, out) ==
    [step |-> step, judged |-> out.kind, decision |-> "raised", patched |-> FALSE]

\* variant: the patch is stored under its category name only, no
\* "category:key" field is written
hset_patch_unflattened(ov, p) == ov

hset_patch(ov, p) ==
    [f \in ConfigFields |->
        IF \E e \in p : e.cat \o ":" \o e.key = f
        THEN StrOf((CHOOSE e \in p : e.cat \o ":" \o e.key = f).val)
        ELSE ov[f]]

\* variant: proceed / fail delete the counter but leave the history list
reflection_tool_keeps_history(step, out) ==
    LET result == reflection_result(out)
        decision == result.decision
    IN  /\ verdict' = [step |-> step, judged |-> out.kind, decision |-> decision,
                        patched |-> decision = "retry" /\ result.patch.kind = "dict"]
        /\ IF decision = "retry"
           THEN /\ retry_count[step] < MaxCount
                /\ retry_count' = [retry_count EXCEPT ![step] = @ + 1]
                /\ IF result.patch.kind = "dict"
                   THEN /\ retry_history' = [retry_history EXCEPT
                                               ![step] = Append(@, result.patch.entries)]
                        /\ overrides' = hset_patch(overrides, result.patch.entries)
                   ELSE UNCHANGED <<retry_history, overrides>>
           ELSE IF decision \in {"proceed", "fail"}
           THEN /\ retry_count' = [retry_count EXCEPT ![step] = 0]
                /\ UNCHANGED <<retry_history, overrides>>
           ELSE UNCHANGED <<retry_count, retry_history, overrides>>

\* lines 202-236: the counter, the history and the override hash
reflection_tool(step, out) ==
    LET result == reflection_result(out)
        decision == result.decision
    IN  /\ verdict' = [step |-> step, judged |-> out.kind, decision |-> decision,
                        patched |-> decision = "retry" /\ result.patch.kind = "dict"]
        /\ IF decision = "retry"
           THEN /\ retry_count[step] < MaxCount
                /\ retry_count' = [retry_count EXCEPT ![step] = @ + 1]
                /\ IF result.patch.kind = "dict"
                   THEN /\ retry_history' = [retry_history EXCEPT
                                               ![step] = Append(@, result.patch.entries)]
                        /\ overrides' = hset_patch(overrides, result.patch.entries)
                   ELSE UNCHANGED <<retry_history, overrides>>
           ELSE IF decision \in {"proceed", "fail"}
           THEN /\ retry_count' = [retry_count EXCEPT ![step] = 0]
                /\ retry_history' = [retry_history EXCEPT ![step] = <<>>]
                /\ UNCHANGED overrides
           ELSE UNCHANGED <<retry_count, retry_history, overrides>>

\* ------------------------------------------------ app/api/routes/tasks.py
\* create_task: saves the uploads and queues generate_video_task; it writes no
\* status record ("queued" is only in the HTTP response)
create_task ==
    /\ pc[RunTask] = "absent"
    /\ pc' = [pc EXCEPT ![RunTask] = "queued"]
    /\ UNCHANGED <<gs, arg, ckpt, status, lastHumanEvent, question, lastEvent, feedbackCalls>>
    /\ UNCHANGED <<gateVars, sup, sideVars>>

\* submit_feedback: set_status(feedback_received), publish
\* human_input_received, resume_video_task.delay; no check of the status
submit_feedback(action) ==
    /\ feedbackCalls < MaxFeedback
    /\ status' = set_status("feedback_received", "user_feedback")
    /\ lastHumanEvent' = "received"
    /\ question' = question
    /\ lastEvent' = "human_input_received"
    /\ feedbackCalls' = feedbackCalls + 1
    /\ pc' = [pc EXCEPT ![feedbackCalls + 1] = "queued"]
    /\ arg' = [arg EXCEPT ![feedbackCalls + 1] = action]
    /\ UNCHANGED <<gs, ckpt, gateVars, sup, sideVars>>

\* ------------------------------------------------------------- checkpoints
\* the compiled graph saves a checkpoint after every node: the values and the
\* node to run next (thread_id = task_id, so every task of the instance
\* writes the same checkpoint)
Checkpoint(next, vals) == [next |-> next, vals |-> vals]

\* routing after a QC node (node_utils.py lines 107-110): proceed goes on,
\* retry repeats the step, anything else goes to human_input, before which
\* the graph interrupts
route_qc(decision, same, following) ==
    IF decision = "proceed" THEN following
    ELSE IF decision = "retry" THEN same
    ELSE "human_input"

\* where the running stream of a task stands after a node routed to `next`
Position(next) == IF next \in {"human_input", "END"} THEN "stream_end" ELSE next

\* routing after human_input: back to the step that triggered the pause
\* (retry) or on to the step after it (proceed); an error ends the graph
route_human_input(vals) ==
    IF vals.error # "none" THEN "END"
    ELSE IF vals.failed_step = "segmentation"
         THEN (IF vals.last_qc_decision = "retry" THEN "segmentation" ELSE "video_gen")
    ELSE IF vals.failed_step = "video_gen"
         THEN (IF vals.last_qc_decision = "retry" THEN "video_gen" ELSE "postprocess")
    ELSE "END"

\* ------------------------------------------------------------ app/worker.py
\* generate_video_task has the CallbackTask callbacks still to run when its
\* body is over; resume_video_task is over with its body
Finish(t, outcome) == IF t = RunTask THEN outcome ELSE "done"

\* generate_video_task -> PipelineOrchestrator.run -> app.stream(initial_state)
run ==
    /\ pc[RunTask] = "queued"
    /\ pc' = [pc EXCEPT ![RunTask] = "segmentation"]
    /\ gs' = [gs EXCEPT ![RunTask] = InitialState]
    /\ ckpt' = Checkpoint("segmentation", InitialState)
    /\ UNCHANGED <<arg, status, lastHumanEvent, question, lastEvent, feedbackCalls, gateVars, sup, sideVars>>

\* resume_video_task -> PipelineOrchestrator.resume: update_state with the
\* feedback, then app.stream(None) from the latest checkpoint
resume(t) ==
    /\ t \in ResumeTasks
    /\ pc[t] = "queued"
    /\ IF ckpt.next = "none"
       THEN /\ pc' = [pc EXCEPT ![t] = "raised"]
            /\ UNCHANGED <<gs, ckpt>>
       ELSE LET vals == [ckpt.vals EXCEPT !.human_feedback = arg[t]]
            IN  /\ ckpt' = Checkpoint(ckpt.next, vals)
                /\ gs' = [gs EXCEPT ![t] = vals]
                /\ pc' = [pc EXCEPT ![t] =
                            IF ckpt.next = "END" THEN "stream_end" ELSE ckpt.next]
    /\ UNCHANGED <<arg, status, lastHumanEvent, question, lastEvent, feedbackCalls, gateVars, sup, sideVars>>

\* ------------------------------------------------- pipeline/node_utils.py
\* a Step Unit is in flight between the start of its tool and its return
StepExec == {"segmentation_exec", "video_gen_exec", "postprocess_exec"}
InFlight == {t \in Tasks : pc[t] \in StepExec}

segmentation_start(t) ==
    /\ pc[t] = "segmentation"
    /\ pc' = [pc EXCEPT ![t] = "segmentation_exec"]
    /\ UNCHANGED <<gs, arg, ckpt, status, lastHumanEvent, question, lastEvent, feedbackCalls, gateVars, sup, sideVars>>

\* segmentation_node: segmentation_tool returns layers (and records
\* step1_completed) or {"error", "decision": "retry"}
segmentation_node(t, ok) ==
    /\ pc[t] = "segmentation_exec"
    /\ LET vals == [gs[t] EXCEPT !.main_layer = ok]
       IN  /\ gs' = [gs EXCEPT ![t] = vals]
           /\ ckpt' = Checkpoint("qc_segmentation", vals)
    /\ status' = IF ok THEN set_status("step1_completed", "result") ELSE status
    /\ lastEvent' = IF ok THEN "status" ELSE lastEvent
    /\ pc' = [pc EXCEPT ![t] = "qc_segmentation"]
    /\ UNCHANGED <<arg, lastHumanEvent, question, feedbackCalls, gateVars, sup, sideVars>>

qc_segmentation_node(t, out) ==
    /\ pc[t] = "qc_segmentation"
    /\ IF reflection_raises(out)
       THEN /\ pc' = [pc EXCEPT ![t] = "raised"]
            /\ verdict' = Raised("segmentation", out)
            /\ UNCHANGED <<gs, ckpt, retry_count, retry_history, overrides>>
       ELSE LET decision == reflection_decision(out)
                next == route_qc(decision, "segmentation", "video_gen")
                vals == [gs[t] EXCEPT !.last_qc_decision = decision,
                                      !.failed_step = "segmentation"]
            IN  /\ reflection_tool("segmentation", out)
                /\ gs' = [gs EXCEPT ![t] = vals]
                /\ ckpt' = Checkpoint(next, vals)
                /\ pc' = [pc EXCEPT ![t] = Position(next)]
    /\ lastEvent' = "thought"
    /\ UNCHANGED <<arg, status, lastHumanEvent, question, feedbackCalls, sup, sideVars>>

\* video_generation_tool.invoke validates main_product_layer: str and raises
\* on None
video_gen_start(t) ==
    /\ pc[t] = "video_gen"
    /\ pc' = [pc EXCEPT ![t] = IF gs[t].main_layer THEN "video_gen_exec" ELSE "raised"]
    /\ UNCHANGED <<gs, arg, ckpt, status, lastHumanEvent, question, lastEvent, feedbackCalls, gateVars, sup, sideVars>>

video_gen_node(t, ok) ==
    /\ pc[t] = "video_gen_exec"
    /\ LET vals == [gs[t] EXCEPT !.raw_video = ok,
                                 !.error = IF ok THEN "none" ELSE "step"]
       IN  /\ gs' = [gs EXCEPT ![t] = vals]
           /\ ckpt' = Checkpoint("qc_video", vals)
    /\ status' = IF ok THEN set_status("step2_completed", "result") ELSE status
    /\ lastEvent' = IF ok THEN "status" ELSE lastEvent
    /\ pc' = [pc EXCEPT ![t] = "qc_video"]
    /\ UNCHANGED <<arg, lastHumanEvent, question, feedbackCalls, gateVars, sup, sideVars>>

qc_video_node(t, out) ==
    /\ pc[t] = "qc_video"
    /\ IF gs[t].error # "none" \/ ~gs[t].raw_video
       THEN \* lines 157-177: reflection_tool is skipped, the verdict is retry
            LET vals == [gs[t] EXCEPT !.last_qc_decision = "retry",
                                      !.failed_step = "video_gen"]
            IN  /\ gs' = [gs EXCEPT ![t] = vals]
                /\ ckpt' = Checkpoint("video_gen", vals)
                /\ pc' = [pc EXCEPT ![t] = "video_gen"]
                /\ UNCHANGED gateVars
       ELSE IF reflection_raises(out)
       THEN /\ pc' = [pc EXCEPT ![t] = "raised"]
            /\ verdict' = Raised("video_generation", out)
            /\ UNCHANGED <<gs, ckpt, retry_count, retry_history, overrides>>
       ELSE LET decision == reflection_decision(out)
                next == route_qc(decision, "video_gen", "postprocess")
                vals == [gs[t] EXCEPT !.last_qc_decision = decision,
                            !.failed_step = IF decision # "proceed"
                                            THEN "video_gen" ELSE "none"]
            IN  /\ reflection_tool("video_generation", out)
                /\ gs' = [gs EXCEPT ![t] = vals]
                /\ ckpt' = Checkpoint(next, vals)
                /\ pc' = [pc EXCEPT ![t] = Position(next)]
    /\ lastEvent' = "thought"
    /\ UNCHANGED <<arg, status, lastHumanEvent, question, feedbackCalls, sup, sideVars>>

postprocess_start(t) ==
    /\ pc[t] = "postprocess"
    /\ pc' = [pc EXCEPT ![t] = IF gs[t].raw_video THEN "postprocess_exec" ELSE "raised"]
    /\ UNCHANGED <<gs, arg, ckpt, status, lastHumanEvent, question, lastEvent, feedbackCalls, gateVars, sup, sideVars>>

\* postprocess_node: postprocess_tool records status completed itself
postprocess_node(t, ok) ==
    /\ pc[t] = "postprocess_exec"
    /\ LET vals == [gs[t] EXCEPT !.final_video = ok]
       IN  /\ gs' = [gs EXCEPT ![t] = vals]
           /\ ckpt' = Checkpoint("END", vals)
    /\ status' = IF ok THEN set_status("completed", "result") ELSE status
    /\ lastEvent' = IF ok THEN "status" ELSE lastEvent
    /\ pc' = [pc EXCEPT ![t] = "stream_end"]
    /\ UNCHANGED <<arg, lastHumanEvent, question, feedbackCalls, gateVars, sup, sideVars>>

\* variant: a retry feedback is recorded as the decision proceed
human_input_node_always_proceeds(t) ==
    /\ pc[t] = "human_input"
    /\ LET fb == gs[t].human_feedback
           vals ==
             IF fb = "retry"
             THEN [gs[t] EXCEPT !.human_feedback = "none",
                                !.last_qc_decision = "proceed",
                                !.user_guidance = "text"]
             ELSE IF fb = "proceed"
             THEN [gs[t] EXCEPT !.human_feedback = "none",
                                !.last_qc_decision = "proceed"]
             ELSE [gs[t] EXCEPT !.error = "human"]
           next == route_human_input(vals)
       IN  /\ gs' = [gs EXCEPT ![t] = vals]
           /\ ckpt' = Checkpoint(next, vals)
           /\ pc' = [pc EXCEPT ![t] = Position(next)]
           /\ lastHumanEvent' = IF fb = "none" THEN "request" ELSE lastHumanEvent
           /\ question' = IF fb = "none" THEN AskHumanQuestion ELSE question
           /\ lastEvent' = IF fb = "none" THEN "human_input_request" ELSE lastEvent
    /\ UNCHANGED <<arg, status, feedbackCalls, gateVars, sup, sideVars>>

\* human_input_node, run when a resumed stream starts at the interrupt
human_input_node(t) ==
    /\ pc[t] = "human_input"
    /\ LET fb == gs[t].human_feedback
           vals ==
             IF fb = "retry"
             THEN [gs[t] EXCEPT !.human_feedback = "none",
                                !.last_qc_decision = "retry",
                                !.user_guidance = "text"]
             ELSE IF fb = "proceed"
             THEN [gs[t] EXCEPT !.human_feedback = "none",
                                !.last_qc_decision = "proceed"]
             ELSE [gs[t] EXCEPT !.error = "human"]
           next == route_human_input(vals)
       IN  /\ gs' = [gs EXCEPT ![t] = vals]
           /\ ckpt' = Checkpoint(next, vals)
           /\ pc' = [pc EXCEPT ![t] = Position(next)]
           /\ lastHumanEvent' = IF fb = "none" THEN "request" ELSE lastHumanEvent
           /\ question' = IF fb = "none" THEN AskHumanQuestion ELSE question
           /\ lastEvent' = IF fb = "none" THEN "human_input_request" ELSE lastEvent
    /\ UNCHANGED <<arg, status, feedbackCalls, gateVars, sup, sideVars>>

\* ------------------------------------------------ pipeline/orchestrator.py
\* question = default; if "user_guidance" in state_values: question =
\* state_values.get("user_guidance"); initial_state holds the key, with None
notify_question(state_values) ==
    IF "user_guidance" \in DOMAIN state_values
    THEN state_values.user_guidance
    ELSE DefaultQuestion

notify_human_input_required(state_values) ==
    /\ lastHumanEvent' = "request"
    /\ question' = notify_question(state_values)
    /\ lastEvent' = "human_input_request"
    /\ status' = set_status("paused", "none")

handle_completion_raises(final_state) ==
    final_state.error # "none" \/ ~final_state.final_video

\* run / resume after the stream ended: snapshot = app.get_state(config)
after_stream(t) ==
    /\ pc[t] = "stream_end"
    /\ IF ckpt.next = "human_input"
       THEN /\ notify_human_input_required(ckpt.vals)
            /\ pc' = [pc EXCEPT ![t] = Finish(t, "returned")]
       ELSE IF ckpt.next = "END"
       THEN IF handle_completion_raises(ckpt.vals)
            THEN /\ pc' = [pc EXCEPT ![t] = "raised"]
                 /\ UNCHANGED <<status, lastHumanEvent, question, lastEvent>>
            ELSE /\ status' = set_status("completed", "output_path")
                 /\ pc' = [pc EXCEPT ![t] = Finish(t, "returned")]
                 /\ UNCHANGED <<lastHumanEvent, question, lastEvent>>
       ELSE /\ pc' = [pc EXCEPT ![t] = Finish(t, "returned")] \* {"status": "running"}
            /\ UNCHANGED <<status, lastHumanEvent, question, lastEvent>>
    /\ gs' = [gs EXCEPT ![t] = InitialState]      \* the stream's state is dropped
    /\ UNCHANGED <<arg, ckpt, feedbackCalls, gateVars, sup, sideVars>>

\* the except blocks of run / resume and of generate_video_task
task_except(t) ==
    /\ pc[t] = "raised"
    /\ status' = set_status("failed", "none")
    /\ pc' = [pc EXCEPT ![t] = Finish(t, "failed")]
    /\ gs' = [gs EXCEPT ![t] = InitialState]
    /\ UNCHANGED <<arg, ckpt, lastHumanEvent, question, lastEvent, feedbackCalls, gateVars, sup, sideVars>>

\* CallbackTask.on_success: generate_video_task returned, whatever it returned
on_success ==
    /\ pc[RunTask] = "returned"
    /\ status' = set_status("completed", "none")
    /\ pc' = [pc EXCEPT ![RunTask] = "done"]
    /\ UNCHANGED <<gs, arg, ckpt, lastHumanEvent, question, lastEvent, feedbackCalls, gateVars, sup, sideVars>>

on_failure ==
    /\ pc[RunTask] = "failed"
    /\ status' = set_status("failed", "none")
    /\ pc' = [pc EXCEPT ![RunTask] = "done"]
    /\ UNCHANGED <<gs, arg, ckpt, lastHumanEvent, question, lastEvent, feedbackCalls, gateVars, sup, sideVars>>

FeedbackActions == {"retry", "proceed", "cancel"}

Next ==
    \/ create_task /\ UNCHANGED loopVars
    \/ \E a \in FeedbackActions : submit_feedback(a) /\ UNCHANGED loopVars
    \/ run /\ UNCHANGED loopVars
    \/ \E t \in Tasks : resume(t) /\ UNCHANGED loopVars
    \/ \E t \in Tasks : segmentation_start(t) /\ UNCHANGED loopVars
    \/ \E t \in Tasks, ok \in BOOLEAN : segmentation_node(t, ok) /\ UNCHANGED loopVars
    \/ \E t \in Tasks, out \in OrchOutputs : qc_segmentation_node(t, out) /\ UNCHANGED loopVars
    \/ \E t \in Tasks : video_gen_start(t) /\ UNCHANGED loopVars
    \/ \E t \in Tasks, ok \in BOOLEAN : video_gen_node(t, ok) /\ UNCHANGED loopVars
    \/ \E t \in Tasks, out \in OrchOutputs : qc_video_node(t, out) /\ UNCHANGED loopVars
    \/ \E t \in Tasks : postprocess_start(t) /\ UNCHANGED loopVars
    \/ \E t \in Tasks, ok \in BOOLEAN : postprocess_node(t, ok) /\ UNCHANGED loopVars
    \/ \E t \in Tasks : human_input_node(t) /\ UNCHANGED loopVars
    \/ \E t \in Tasks : after_stream(t) /\ UNCHANGED loopVars
    \/ \E t \in Tasks : task_except(t) /\ UNCHANGED loopVars
    \/ on_success /\ UNCHANGED loopVars
    \/ on_failure /\ UNCHANGED loopVars

Spec == Init /\ [][Next]_vars

\* the same program with a client that submits feedback only while the
\* status record it reads says paused
NextPaused ==
    \/ create_task /\ UNCHANGED loopVars
    \/ \E a \in FeedbackActions : status.status = "paused" /\ submit_feedback(a) /\ UNCHANGED loopVars
    \/ run /\ UNCHANGED loopVars
    \/ \E t \in Tasks : resume(t) /\ UNCHANGED loopVars
    \/ \E t \in Tasks : segmentation_start(t) /\ UNCHANGED loopVars
    \/ \E t \in Tasks, ok \in BOOLEAN : segmentation_node(t, ok) /\ UNCHANGED loopVars
    \/ \E t \in Tasks, out \in OrchOutputs : qc_segmentation_node(t, out) /\ UNCHANGED loopVars
    \/ \E t \in Tasks : video_gen_start(t) /\ UNCHANGED loopVars
    \/ \E t \in Tasks, ok \in BOOLEAN : video_gen_node(t, ok) /\ UNCHANGED loopVars
    \/ \E t \in Tasks, out \in OrchOutputs : qc_video_node(t, out) /\ UNCHANGED loopVars
    \/ \E t \in Tasks : postprocess_start(t) /\ UNCHANGED loopVars
    \/ \E t \in Tasks, ok \in BOOLEAN : postprocess_node(t, ok) /\ UNCHANGED loopVars
    \/ \E t \in Tasks : human_input_node(t) /\ UNCHANGED loopVars
    \/ \E t \in Tasks : after_stream(t) /\ UNCHANGED loopVars
    \/ \E t \in Tasks : task_except(t) /\ UNCHANGED loopVars
    \/ on_success /\ UNCHANGED loopVars
    \/ on_failure /\ UNCHANGED loopVars

SpecPaused == Init /\ [][NextPaused]_vars

\* ------------------------------------------- one stream and its step limit
\* app.stream(initial_state, config) runs one node per superstep; config
\* holds the thread_id only, so the stream raises GraphRecursionError when
\* recursion_limit supersteps have run and a node is still to run

\* a node has run to its end
superstep ==
    /\ supersteps < recursion_limit
    /\ supersteps' = supersteps + 1

\* a node may start
within_limit ==
    /\ supersteps < recursion_limit
    /\ UNCHANGED supersteps

\* the nodes a running stream can be about to start
StreamNodes == {"segmentation", "qc_segmentation", "video_gen", "qc_video", "postprocess"}

\* variant: at the limit the stream starts a new count and goes on
out_of_steps_goes_on ==
    /\ pc[RunTask] \in StreamNodes
    /\ supersteps = recursion_limit
    /\ supersteps' = 0
    /\ UNCHANGED <<pc, gs, arg, ckpt, status, lastHumanEvent, question, lastEvent,
                   feedbackCalls, gateVars, sup, sideVars>>

\* GraphRecursionError leaves app.stream and reaches the except of run()
out_of_steps ==
    /\ pc[RunTask] \in StreamNodes
    /\ supersteps = recursion_limit
    /\ pc' = [pc EXCEPT ![RunTask] = "raised"]
    /\ UNCHANGED <<gs, arg, ckpt, status, lastHumanEvent, question, lastEvent, feedbackCalls,
                   gateVars, sup, sideVars, loopVars>>

\* generate_video_task from its submission to its callbacks, no feedback
NextLoop ==
    \/ create_task /\ UNCHANGED loopVars
    \/ run /\ supersteps' = 0
    \/ segmentation_start(RunTask) /\ within_limit
    \/ \E ok \in BOOLEAN : segmentation_node(RunTask, ok) /\ superstep
    \/ \E out \in OrchOutputs : qc_segmentation_node(RunTask, out) /\ superstep
    \/ video_gen_start(RunTask) /\ within_limit
    \/ \E ok \in BOOLEAN : video_gen_node(RunTask, ok) /\ superstep
    \/ \E out \in OrchOutputs : qc_video_node(RunTask, out) /\ superstep
    \/ postprocess_start(RunTask) /\ within_limit
    \/ \E ok \in BOOLEAN : postprocess_node(RunTask, ok) /\ superstep
    \/ out_of_steps
    \/ after_stream(RunTask) /\ UNCHANGED loopVars
    \/ task_except(RunTask) /\ UNCHANGED loopVars
    \/ on_success /\ UNCHANGED loopVars
    \/ on_failure /\ UNCHANGED loopVars

SpecLoop == Init /\ [][NextLoop]_vars

\* every Step Unit call and every judgment call returns, and the worker runs
\* the task it took to its end
SpecLoopFair == SpecLoop /\ WF_vars(NextLoop)


\* ------------------------------------------------------------------------
\* The quality gate and the step tools: reflection_tool applied to any step
\* with any judgment, and the decorated tools invoked, in any order.

\* ------------------------------------------------- tools/decorators.py

\* the tools behind @use_supervisor_config, by func.__name__ without "_tool"
Tools == {"segmentation", "video_generation", "postprocess"}

\* the kwargs the graph nodes pass besides task_id and the paths
ToolKwargs(tool) ==
    IF tool = "segmentation"
    THEN {[key |-> "num_layers", val |-> IntV(4)],
          [key |-> "resolution", val |-> IntV(640)],
          [key |-> "prompt_mode", val |-> StrV("center")]}
    ELSE IF tool = "video_generation"
    THEN {[key |-> "num_frames", val |-> IntV(96)]}
    ELSE {}

\* key.split(":", 1) of a field of the config hash
CatKeys == {[cat |-> e.cat, key |-> e.key] : e \in UNION ToolPatches}
split(field) == CHOOSE ck \in CatKeys : ck.cat \o ":" \o ck.key = field

\* int(value) / value.isdigit() on the strings the hash can hold
KnownInts == {e.val.i : e \in {x \in UNION Patches : x.val.t = "int"}}
isdigit(value) == \E i \in KnownInts : ToString(i) = value
int(value) == IntV(CHOOSE i \in KnownInts : ToString(i) = value)

\* the type of kwargs.get(param): "none" when the caller did not pass it
original_type(kwargs, param) ==
    IF \E e \in kwargs : e.key = param
    THEN (CHOOSE e \in kwargs : e.key = param).val.t
    ELSE "none"

\* lines 53-69: isinstance(original_val, int) holds for a bool as well, so
\* the int branch takes both; int(value) raises on a non-numeric string
cast_raises(orig, value) == orig \in {"int", "bool"} /\ ~isdigit(value)

cast(orig, value) ==
    IF orig \in {"int", "bool"} THEN int(value)
    ELSE IF orig = "str" THEN StrV(value)
    ELSE IF isdigit(value) THEN int(value)
    ELSE IF value \in {"true", "True", "false", "False"}
         THEN BoolV(value \in {"true", "True"})
    ELSE StrV(value)

\* variant: every override of the hash is applied, whatever its category
use_supervisor_config_any_category(tool, kwargs, ov) ==
    LET mine == {f \in ConfigFields : ov[f] # ""}
    IN  {{e \in kwargs : ~\E f \in mine : split(f).key = e.key}
           \cup {[key |-> split(f).key,
                  val |-> cast(original_type(kwargs, split(f).key), ov[f])] : f \in mine}}

\* the kwargs the wrapped function is called with. The overrides of the
\* tool's category are applied one by one inside one try block: a cast that
\* raises ends the loop, and the overrides applied before it stay (the hash
\* order decides which, so every subset of the others is possible)
use_supervisor_config(tool, kwargs, ov) ==
    LET mine == {f \in ConfigFields : ov[f] # "" /\ split(f).cat = tool}
        bad == {f \in mine : cast_raises(original_type(kwargs, split(f).key), ov[f])}
        applied == IF bad = {} THEN {mine} ELSE SUBSET (mine \ bad)
    IN  {{e \in kwargs : ~\E f \in A : split(f).key = e.key}
           \cup {[key |-> split(f).key,
                  val |-> cast(original_type(kwargs, split(f).key), ov[f])] : f \in A}
         : A \in applied}

\* the keyword parameters of the decorated tools that have a default, each
\* with its default (whose type is the parameter's type)
Signature(tool) ==
    IF tool = "segmentation"
    THEN {[key |-> "num_layers", val |-> IntV(4)],
          [key |-> "resolution", val |-> IntV(640)],
          [key |-> "prompt_mode", val |-> StrV("center")]}
    ELSE IF tool = "video_generation"
    THEN {[key |-> "num_frames", val |-> IntV(96)]}
    ELSE {[key |-> "rife_enabled", val |-> BoolV(TRUE)],
          [key |-> "cugan_enabled", val |-> BoolV(TRUE)]}

\* dict.get(key, default)
get(d, key, default) == IF key \in DOMAIN d THEN d[key] ELSE default

\* the value a tool's body sees for a parameter: the keyword argument, or the
\* default of the signature
argument(tool, kwargs, key) ==
    IF \E e \in kwargs : e.key = key
    THEN (CHOOSE e \in kwargs : e.key = key).val
    ELSE (CHOOSE e \in Signature(tool) : e.key = key).val

\* video_generation_tool lines 50-55: the config handed to executor.execute
execute_config(num_frames) == "video_generation" :> ("num_frames" :> num_frames)

\* Step2VideoGeneration.execute lines 51-52 and 71-74: the num_frames that
\* loader.generate_video is called with
generate_video_num_frames(config) ==
    get(get(config, "ltx2", <<>>), "num_frames", ltx_num_frames)

\* the frames the call of a tool generates (no video but in video_generation)
generated(tool, kwargs) ==
    IF tool = "video_generation"
    THEN generate_video_num_frames(
             execute_config(argument(tool, kwargs, "num_frames").i))
    ELSE 0

\* segmentation_node -> segmentation_tool.invoke
segmentation_tool ==
    /\ \E k \in use_supervisor_config("segmentation", ToolKwargs("segmentation"), overrides) :
          call' = [tool |-> "segmentation", kwargs |-> k,
                   generated |-> generated("segmentation", k)]
    /\ UNCHANGED <<orchVars, gateVars, sup, wsVars, vramVars, stepVars, judgeVars, planVars, loopVars>>

\* video_gen_node -> video_generation_tool.invoke
video_generation_tool ==
    /\ \E k \in use_supervisor_config("video_generation", ToolKwargs("video_generation"), overrides) :
          call' = [tool |-> "video_generation", kwargs |-> k,
                   generated |-> generated("video_generation", k)]
    /\ UNCHANGED <<orchVars, gateVars, sup, wsVars, vramVars, stepVars, judgeVars, planVars, loopVars>>

\* postprocess_node -> postprocess_tool.invoke
postprocess_tool ==
    /\ \E k \in use_supervisor_config("postprocess", ToolKwargs("postprocess"), overrides) :
          call' = [tool |-> "postprocess", kwargs |-> k,
                   generated |-> generated("postprocess", k)]
    /\ UNCHANGED <<orchVars, gateVars, sup, wsVars, vramVars, stepVars, judgeVars, planVars, loopVars>>

reflect(step, out) ==
    /\ IF reflection_raises(out)
       THEN /\ verdict' = Raised(step, out)
            /\ UNCHANGED <<retry_count, retry_history, overrides>>
       ELSE reflection_tool(step, out)
    /\ UNCHANGED <<orchVars, sup, sideVars, loopVars>>

NextGate ==
    \/ \E step \in ReflSteps, out \in JudgeOutputs : reflect(step, out)
    \/ segmentation_tool
    \/ video_generation_tool
    \/ postprocess_tool

SpecGate == Init /\ [][NextGate]_vars

\* ----------------------------- the decorated tools called with any arguments
\* the annotated type of a parameter
ParamType(tool, key) == (CHOOSE e \in Signature(tool) : e.key = key).val.t

\* the config hashes reflection_tool can have left behind: every patch it
\* has stored, flattened into its field
StoredHashes ==
    {hset_patch([f \in ConfigFields |-> ""], UNION S) : S \in SUBSET ToolPatches}

\* the agent executor calls a decorated tool with the arguments the model
\* chose: any of the parameters that have a default may be left out
agent_invokes(tool, passed) ==
    /\ \E k \in use_supervisor_config(tool, passed, overrides) :
          call' = [tool |-> tool, kwargs |-> k, generated |-> generated(tool, k)]
    /\ UNCHANGED <<orchVars, gateVars, sup, wsVars, vramVars, stepVars, judgeVars, planVars, loopVars>>

NextCast ==
    \E tool \in Tools : \E passed \in SUBSET Signature(tool) :
          agent_invokes(tool, passed)

SpecCast == (\E ov \in StoredHashes : InitWith(ov)) /\ [][NextCast]_vars

\* ------------------------------- tools/reflection.py: the judgment stream
\* extract_json_from_text on a text made of chunks: the part from the first
\* "{" to the last "}" when there is one, else the whole text, then json.loads
json_str(text) ==
    LET opens == {i \in DOMAIN text : text[i] = "{"}
        closes == {i \in DOMAIN text : text[i] = "}"}
        first == CHOOSE i \in opens : \A k \in opens : i <= k
        last == CHOOSE i \in closes : \A k \in closes : i >= k
    IN  IF opens # {} /\ closes # {} /\ last > first
        THEN SubSeq(text, first, last)
        ELSE text

\* the judgment a text parses to: an object with a decision, or nothing
\* usable (json.loads fails, or the object is empty)
judged(text) ==
    LET js == json_str(text)
    IN  IF Len(js) = 3 /\ js[1] = "{" /\ js[3] = "}" /\ js[2] \in {"retry", "proceed"}
        THEN ObjectOut(js[2], AbsentPatch)
        ELSE OtherOut("unparseable")

\* what llm.invoke can return as the whole text when the stream failed
InvokeTexts == {<<"{", "retry", "}">>, <<"{", "proceed", "}">>, <<"proceed">>}

\* reflection_tool reaches "for chunk in llm.stream(...)" with full_content = ""
stream_start(step) ==
    /\ stream.at \in {"idle", "returned", "raised"}
    /\ stream' = [NoStream EXCEPT !.at = "streaming", !.step = step]
    /\ UNCHANGED <<orchVars, gateVars, sup, call, wsVars, vramVars, stepVars, planVars, loopVars>>

\* variant: the chunk is added to full_content and no event is published
stream_chunk_unpublished(token) ==
    /\ stream.at = "streaming"
    /\ Len(stream.produced) < MaxChunks
    /\ stream' = [stream EXCEPT !.produced = Append(@, token),
                                !.full_content = Append(@, token)]
    /\ UNCHANGED <<orchVars, gateVars, sup, call, wsVars, vramVars, stepVars, planVars, loopVars>>

\* one turn of the loop: token = chunk.content; full_content += token;
\* publish {"type": "token", "content": token}
stream_chunk(token) ==
    /\ stream.at = "streaming"
    /\ Len(stream.produced) < MaxChunks
    /\ stream' = [stream EXCEPT !.produced = Append(@, token),
                                !.full_content = Append(@, token),
                                !.events = Append(@, [type |-> "token", content |-> token])]
    /\ UNCHANGED <<orchVars, gateVars, sup, call, wsVars, vramVars, stepVars, planVars, loopVars>>

\* the rest of the tool once full_content is final: parse, update the retry
\* state, return the verdict
stream_finish(content, fallback) ==
    /\ reflection_tool(stream.step, judged(content))
    /\ stream' = [stream EXCEPT !.at = "returned", !.full_content = content,
                                !.fallback = fallback]

\* the stream is exhausted
stream_ends ==
    /\ stream.at = "streaming"
    /\ stream_finish(stream.full_content, FALSE)
    /\ UNCHANGED <<orchVars, sup, call, wsVars, vramVars, stepVars, planVars, loopVars>>

\* llm.stream raises: the except block calls llm.invoke and takes its content
\* as full_content; ok is whether llm.invoke returns
stream_raises(text, ok) ==
    /\ stream.at = "streaming"
    /\ IF ok
       THEN stream_finish(text, TRUE)
       ELSE /\ verdict' = Raised(stream.step, OtherOut("raise"))
            /\ stream' = [stream EXCEPT !.at = "raised", !.fallback = TRUE]
            /\ UNCHANGED <<retry_count, retry_history, overrides>>
    /\ UNCHANGED <<orchVars, sup, call, wsVars, vramVars, stepVars, planVars, loopVars>>

NextStream ==
    \/ \E step \in ReflSteps : stream_start(step)
    \/ \E token \in Tokens : stream_chunk(token)
    \/ stream_ends
    \/ \E text \in InvokeTexts, ok \in BOOLEAN : stream_raises(text, ok)

SpecStream == Init /\ [][NextStream]_vars

\* ------------------------------------- tools/utility.py: planning_tool
\* the payload RedisManager.set_status stores: the named members, then
\* payload.update(extra)
status_payload(st, message, extra) ==
    extra @@ ("status" :> st) @@ ("message" :> message)

\* planning_tool up to its wait loop: the plan is published and recorded
planning_tool_propose(plan_data) ==
    /\ plan.at = "idle"
    /\ plan.calls < MaxPlans
    /\ plan' = [plan EXCEPT !.at = "polling",
                            !.calls = @ + 1,
                            !.record = status_payload("planning_proposed", "proposed",
                                                      "plan" :> plan_data)]
    /\ UNCHANGED <<orchVars, gateVars, sup, call, wsVars, vramVars, stepVars, judgeVars, loopVars>>

\* POST /{task_id}/feedback: the status payload as submit_feedback writes it
submit_feedback_form(feedback, action) ==
    /\ plan.at = "polling"
    /\ plan.submits < MaxFeedback
    /\ plan' = [plan EXCEPT !.submitted = feedback,
                            !.submits = @ + 1,
                            !.resume = "queued",
                            !.record = status_payload("feedback_received", "resuming",
                                          ("user_feedback" :> feedback)
                                            @@ ("action" :> action))]
    /\ UNCHANGED <<orchVars, gateVars, sup, call, wsVars, vramVars, stepVars, judgeVars, loopVars>>

\* one poll that finds feedback_received: feedback =
\* status_data.get("extra", {}).get("user_feedback", "Approved")
planning_tool_poll ==
    /\ plan.at = "polling"
    /\ plan.record["status"] = "feedback_received"
    /\ plan' = [plan EXCEPT !.at = "returned",
                  !.response = [kind |-> "user_response",
                                feedback |-> get(get(plan.record, "extra", <<>>),
                                                 "user_feedback", "Approved")]]
    /\ UNCHANGED <<orchVars, gateVars, sup, call, wsVars, vramVars, stepVars, judgeVars, loopVars>>

\* the resume task that submit_feedback started writes the status record:
\* failed (the except block of resume), paused (_notify_human_input_required)
\* or completed (_handle_completion)
resume_writes_status(st) ==
    /\ plan.resume = "queued"
    /\ plan' = [plan EXCEPT !.resume = "done",
                            !.record = status_payload(st, "resume", <<>>)]
    /\ UNCHANGED <<orchVars, gateVars, sup, call, wsVars, vramVars, stepVars, judgeVars, loopVars>>

\* the 300 s of polling are over
planning_tool_timeout ==
    /\ plan.at = "polling"
    /\ plan.record["status"] # "feedback_received"
    /\ plan' = [plan EXCEPT !.at = "returned",
                            !.response = [kind |-> "timeout", feedback |-> ""]]
    /\ UNCHANGED <<orchVars, gateVars, sup, call, wsVars, vramVars, stepVars, judgeVars, loopVars>>

\* the agent calls planning_tool again
planning_tool_again ==
    /\ plan.at = "returned"
    /\ plan' = [plan EXCEPT !.at = "idle", !.submitted = "none", !.submits = 0,
                            !.response = NoPlan.response]
    /\ UNCHANGED <<orchVars, gateVars, sup, call, wsVars, vramVars, stepVars, judgeVars, loopVars>>

NextPlan ==
    \/ \E plan_data \in Plans : planning_tool_propose(plan_data)
    \/ \E feedback \in FeedbackTexts, action \in FeedbackActions :
          submit_feedback_form(feedback, action)
    \/ planning_tool_poll
    \/ \E st \in {"failed", "paused", "completed"} : resume_writes_status(st)
    \/ planning_tool_timeout
    \/ planning_tool_again

SpecPlan == Init /\ [][NextPlan]_vars

\* ------------------------------------------------------------------------
\* The supervisor graph of pipeline/graph.py:
\*   step1 -> supervisor -> route_next -> step1 | step2 | step3 | END

\* what the chain prompt | llm | JsonOutputParser gives reflect_and_route
SupNextSteps == {"step1", "step2", "step3", "end", "retry"}
SupResponses ==
    [kind : {"object"}, decision : {"proceed", "retry", "fail"},
     next_step : SupNextSteps, patch : {AbsentPatch} \cup {DictPatch(P_res)}]
      \cup {[kind |-> "raise", decision |-> "", next_step |-> "", patch |-> AbsentPatch]}

\* SupervisorAgent._get_default_next
get_default_next(current_step) ==
    LET steps == <<"start", "step1", "step2", "step3", "end">>
    IN  IF \E i \in 1..Len(steps) : steps[i] = current_step
        THEN LET idx == CHOOSE i \in 1..Len(steps) : steps[i] = current_step
             IN  IF idx + 1 <= Len(steps) THEN steps[idx + 1] ELSE "end"
        ELSE "end"

\* SupervisorAgent.reflect_and_route: the parsed response, or the fallback
reflect_and_route(state, resp) ==
    IF resp.kind = "raise"
    THEN [kind |-> "object", decision |-> "proceed",
          next_step |-> get_default_next(state.current_step),
          patch |-> AbsentPatch]
    ELSE resp

\* graph.py route_next
route_next(next_step) ==
    IF next_step = "end" THEN "end"
    ELSE IF next_step \in {"step1", "step2", "step3"} THEN next_step
    ELSE "end"

\* the merge of config_patch into state["config"], entry by entry
merge_config(config, p) ==
    {e \in config : ~\E n \in p : n.cat = e.cat /\ n.key = e.key} \cup p

\* what a step node returns: execute returned (ok) or raised; either way the
\* node returns and its edge leads to the supervisor
step_return(state, step, ok) ==
    [state EXCEPT !.node = "supervisor",
                  !.current_step = step,
                  !.step_results[step] = IF ok THEN "ok" ELSE "error",
                  !.error = ~ok]

node_step1(ok) ==
    /\ sup.node = "step1"
    /\ sup' = step_return(sup, "step1", ok)
    /\ UNCHANGED <<orchVars, gateVars, sideVars, loopVars>>

node_step2(ok) ==
    /\ sup.node = "step2"
    /\ sup' = step_return(sup, "step2", ok)
    /\ UNCHANGED <<orchVars, gateVars, sideVars, loopVars>>

node_step3(ok) ==
    /\ sup.node = "step3"
    /\ sup' = step_return(sup, "step3", ok)
    /\ UNCHANGED <<orchVars, gateVars, sideVars, loopVars>>

\* variant: the counter of the current step goes up on every verdict
supervisor_node_counts_every_verdict(resp) ==
    /\ sup.node = "supervisor"
    /\ LET decision == reflect_and_route(sup, resp)
           retrying == decision.decision = "retry"
       IN  /\ retrying => sup.retry_count[sup.current_step] < MaxSupRetry
           /\ sup' = [sup EXCEPT
                        !.next_step = decision.next_step,
                        !.config = IF decision.patch.kind = "dict"
                                   THEN merge_config(@, decision.patch.entries)
                                   ELSE @,
                        !.retry_count[sup.current_step] =
                            IF sup.retry_count[sup.current_step] < MaxSupRetry
                            THEN @ + 1 ELSE @,
                        !.decision = decision.decision,
                        !.fallback = (resp.kind = "raise"),
                        !.node = route_next(decision.next_step)]
    /\ UNCHANGED <<orchVars, gateVars, sideVars, loopVars>>

supervisor_node(resp) ==
    /\ sup.node = "supervisor"
    /\ LET decision == reflect_and_route(sup, resp)
           retrying == decision.decision = "retry"
       IN  /\ retrying => sup.retry_count[sup.current_step] < MaxSupRetry
           /\ sup' = [sup EXCEPT
                        !.next_step = decision.next_step,
                        !.config = IF decision.patch.kind = "dict"
                                   THEN merge_config(@, decision.patch.entries)
                                   ELSE @,
                        !.retry_count[sup.current_step] =
                            IF retrying THEN @ + 1 ELSE @,
                        !.decision = decision.decision,
                        !.fallback = (resp.kind = "raise"),
                        !.node = route_next(decision.next_step)]
    /\ UNCHANGED <<orchVars, gateVars, sideVars, loopVars>>

NextGraph ==
    \/ \E ok \in BOOLEAN : node_step1(ok)
    \/ \E ok \in BOOLEAN : node_step2(ok)
    \/ \E ok \in BOOLEAN : node_step3(ok)
    \/ \E resp \in SupResponses : supervisor_node(resp)

SpecGraph == Init /\ [][NextGraph]_vars

\* ------------------------------------------------------------------------
\* The event channel: app/api/routes/ws.py websocket_task, with the writers
\* of the status record and the publishers of the channel as the environment

\* messages a connection sends to its client
Snapshot(seq, st) == [kind |-> "snapshot", seq |-> seq, ev |-> 0, status |-> st]
Event(seq, ev) == [kind |-> "event", seq |-> seq, ev |-> ev, status |-> ""]
Ping == [kind |-> "ping", seq |-> 0, ev |-> 0, status |-> ""]

\* statuses the steps persist while an instance runs
RunStatuses == {"step1_completed", "step2_completed"}

\* RedisManager.set_status by a step tool
write_status(s) ==
    /\ s # status.status
    /\ status' = set_status(s, "result")
    /\ UNCHANGED <<pc, gs, arg, ckpt, lastHumanEvent, question, lastEvent, feedbackCalls>>
    /\ UNCHANGED <<gateVars, sup, call, wsVars, vramVars, stepVars, judgeVars, planVars, loopVars>>

\* variant: the message reaches only the connections already in their
\* listen loop
publish_to_listening ==
    /\ published < MaxEvents
    /\ published' = published + 1
    /\ ws' = [c \in Subscribers |->
                IF ws[c].pc = "listening"
                THEN [ws[c] EXCEPT !.inbox = Append(@, published + 1)]
                ELSE ws[c]]
    /\ UNCHANGED <<orchVars, gateVars, sup, call, vramVars, stepVars, judgeVars, planVars, loopVars>>

\* RedisManager.publish: Redis hands the message to every connection
\* subscribed at that moment, in publish order; the event is the published-th
\* of the channel
publish ==
    /\ published < MaxEvents
    /\ published' = published + 1
    /\ ws' = [c \in Subscribers |->
                IF ws[c].pc \in {"subscribed", "listening"}
                THEN [ws[c] EXCEPT !.inbox = Append(@, published + 1)]
                ELSE ws[c]]
    /\ UNCHANGED <<orchVars, gateVars, sup, call, vramVars, stepVars, judgeVars, planVars, loopVars>>

\* lines 17-50: accept, subscribe to the channel, seq_id = 0; since is the
\* number of events the channel had carried when the subscription began
ws_subscribe(c) ==
    /\ ws[c].pc = "idle"
    /\ ws' = [ws EXCEPT ![c].pc = "subscribed", ![c].since = published]
    /\ UNCHANGED <<orchVars, gateVars, sup, call, published, vramVars, stepVars, judgeVars, planVars, loopVars>>

\* lines 52-65: the initial state, sent only when a status record exists
ws_initial_state(c) ==
    /\ ws[c].pc = "subscribed"
    /\ ws' = [ws EXCEPT ![c] =
                IF status = NoStatus
                THEN [@ EXCEPT !.pc = "listening"]
                ELSE [@ EXCEPT !.pc = "listening",
                               !.seq_id = @ + 1,
                               !.sent = Append(@, Snapshot(ws[c].seq_id + 1, status.status))]]
    /\ UNCHANGED <<orchVars, gateVars, sup, call, published, vramVars, stepVars, judgeVars, planVars, loopVars>>

\* variant: the message is sent with the seq_id of the message before it
ws_listen_same_seq(c) ==
    /\ ws[c].pc = "listening"
    /\ ws[c].inbox # <<>>
    /\ ws' = [ws EXCEPT ![c].inbox = Tail(@),
                        ![c].sent = Append(@, Event(ws[c].seq_id, Head(ws[c].inbox)))]
    /\ UNCHANGED <<orchVars, gateVars, sup, call, published, vramVars, stepVars, judgeVars, planVars, loopVars>>

\* lines 68-81: the next pub/sub message gets seq_id + 1 and is sent
ws_listen(c) ==
    /\ ws[c].pc = "listening"
    /\ ws[c].inbox # <<>>
    /\ ws' = [ws EXCEPT ![c].inbox = Tail(@),
                        ![c].seq_id = @ + 1,
                        ![c].sent = Append(@, Event(ws[c].seq_id + 1, Head(ws[c].inbox)))]
    /\ UNCHANGED <<orchVars, gateVars, sup, call, published, vramVars, stepVars, judgeVars, planVars, loopVars>>

\* lines 38-48: the heartbeat task sends a ping without a seq; it first runs
\* when websocket_task awaits
send_heartbeat(c) ==
    /\ ws[c].pc = "listening"
    /\ ws[c].pings < MaxPings
    /\ ws' = [ws EXCEPT ![c].pings = @ + 1, ![c].sent = Append(@, Ping)]
    /\ UNCHANGED <<orchVars, gateVars, sup, call, published, vramVars, stepVars, judgeVars, planVars, loopVars>>

\* lines 83-99: the client goes away; unsubscribe and close
ws_disconnect(c) ==
    /\ ws[c].pc \in {"subscribed", "listening"}
    /\ ws' = [ws EXCEPT ![c].pc = "closed", ![c].inbox = <<>>]
    /\ UNCHANGED <<orchVars, gateVars, sup, call, published, vramVars, stepVars, judgeVars, planVars, loopVars>>

NextWs ==
    \/ \E s \in RunStatuses : write_status(s)
    \/ publish
    \/ \E c \in Subscribers : ws_subscribe(c)
    \/ \E c \in Subscribers : ws_initial_state(c)
    \/ \E c \in Subscribers : ws_listen(c)
    \/ \E c \in Subscribers : send_heartbeat(c)
    \/ \E c \in Subscribers : ws_disconnect(c)

SpecWs == Init /\ [][NextWs]_vars

\* ------------------------------------------------------------------------
\* pipeline/vram_manager.py: one VRAMManager and the loaders handed to it

Range(seq) == {seq[i] : i \in DOMAIN seq}

\* del self.loaded_models[name]
Remove(seq, name) == SelectSeq(seq, LAMBDA m : m # name)

\* variant: no look-up in the registry, the loader is loaded on every call
load_model_always(name, low, ok) ==
    /\ loaders[name].load_calls < MaxCalls
    /\ loaders' = [loaders EXCEPT ![name].load_calls = @ + 1]
    /\ loaded_models' = IF ok /\ name \notin Range(loaded_models)
                        THEN Append(loaded_models, name) ELSE loaded_models
    /\ vlog' = [op |-> "load_model", name |-> name,
                calls |-> (IF low THEN <<"cleanup">> ELSE <<>>) \o <<"load">>,
                raised |-> ~ok]
    /\ UNCHANGED <<orchVars, gateVars, sup, call, wsVars>>

\* variant: the reclamation pass runs after loader.load() instead of before it
load_model_cleanup_after(name, low, ok) ==
    /\ IF name \in Range(loaded_models)
       THEN /\ vlog' = [op |-> "load_model", name |-> name, calls |-> <<>>, raised |-> FALSE]
            /\ UNCHANGED <<loaded_models, loaders>>
       ELSE /\ loaders[name].load_calls < MaxCalls
            /\ loaders' = [loaders EXCEPT ![name].load_calls = @ + 1]
            /\ loaded_models' = IF ok THEN Append(loaded_models, name) ELSE loaded_models
            /\ vlog' = [op |-> "load_model", name |-> name,
                        calls |-> <<"load">> \o (IF low /\ ok THEN <<"cleanup">> ELSE <<>>),
                        raised |-> ~ok]
    /\ UNCHANGED <<orchVars, gateVars, sup, call, wsVars>>

\* variant: the name is registered before loader.load() is called
load_model_registers_first(name, low, ok) ==
    /\ IF name \in Range(loaded_models)
       THEN /\ vlog' = [op |-> "load_model", name |-> name, calls |-> <<>>, raised |-> FALSE]
            /\ UNCHANGED <<loaded_models, loaders>>
       ELSE /\ loaders[name].load_calls < MaxCalls
            /\ loaders' = [loaders EXCEPT ![name].load_calls = @ + 1]
            /\ loaded_models' = Append(loaded_models, name)
            /\ vlog' = [op |-> "load_model", name |-> name,
                        calls |-> (IF low THEN <<"cleanup">> ELSE <<>>) \o <<"load">>,
                        raised |-> ~ok]
    /\ UNCHANGED <<orchVars, gateVars, sup, call, wsVars>>

\* load_model(model_name, loader); low is info['free_gb'] < free_gb_required,
\* ok is whether loader.load() returns
load_model(name, low, ok) ==
    /\ IF name \in Range(loaded_models)
       THEN /\ vlog' = [op |-> "load_model", name |-> name, calls |-> <<>>, raised |-> FALSE]
            /\ UNCHANGED <<loaded_models, loaders>>
       ELSE /\ loaders[name].load_calls < MaxCalls
            /\ loaders' = [loaders EXCEPT ![name].load_calls = @ + 1]
            /\ loaded_models' = IF ok THEN Append(loaded_models, name) ELSE loaded_models
            /\ vlog' = [op |-> "load_model", name |-> name,
                        calls |-> (IF low THEN <<"cleanup">> ELSE <<>>) \o <<"load">>,
                        raised |-> ~ok]
    /\ UNCHANGED <<orchVars, gateVars, sup, call, wsVars>>

\* variant: no look-up in the registry, the loader is unloaded on every call
unload_model_unchecked(name, ok) ==
    /\ loaders[name].unload_calls < MaxCalls
    /\ loaders' = [loaders EXCEPT ![name].unload_calls = @ + 1]
    /\ loaded_models' = IF ok THEN Remove(loaded_models, name) ELSE loaded_models
    /\ vlog' = [op |-> "unload_model", name |-> name,
                calls |-> <<"unload">> \o (IF ok THEN <<"cleanup">> ELSE <<>>),
                raised |-> ~ok]
    /\ UNCHANGED <<orchVars, gateVars, sup, call, wsVars>>

\* variant: the registry entry is deleted and the call returns without cleanup()
unload_model_no_cleanup(name, ok) ==
    /\ IF name \notin Range(loaded_models)
       THEN /\ vlog' = [op |-> "unload_model", name |-> name, calls |-> <<>>, raised |-> FALSE]
            /\ UNCHANGED <<loaded_models, loaders>>
       ELSE /\ loaders[name].unload_calls < MaxCalls
            /\ loaders' = [loaders EXCEPT ![name].unload_calls = @ + 1]
            /\ loaded_models' = IF ok THEN Remove(loaded_models, name) ELSE loaded_models
            /\ vlog' = [op |-> "unload_model", name |-> name,
                        calls |-> <<"unload">>, raised |-> ~ok]
    /\ UNCHANGED <<orchVars, gateVars, sup, call, wsVars>>

\* unload_model(model_name); ok is whether loader.unload() returns
unload_model(name, ok) ==
    /\ IF name \notin Range(loaded_models)
       THEN /\ vlog' = [op |-> "unload_model", name |-> name, calls |-> <<>>, raised |-> FALSE]
            /\ UNCHANGED <<loaded_models, loaders>>
       ELSE /\ loaders[name].unload_calls < MaxCalls
            /\ loaders' = [loaders EXCEPT ![name].unload_calls = @ + 1]
            /\ loaded_models' = IF ok THEN Remove(loaded_models, name) ELSE loaded_models
            /\ vlog' = [op |-> "unload_model", name |-> name,
                        calls |-> <<"unload">> \o (IF ok THEN <<"cleanup">> ELSE <<>>),
                        raised |-> ~ok]
    /\ UNCHANGED <<orchVars, gateVars, sup, call, wsVars>>

\* unload_all: unload_model for every registered name, in insertion order;
\* failing holds the loaders whose unload() raises, and the first of them
\* ends the loop
first_failing(failing) ==
    IF \E i \in DOMAIN loaded_models : loaded_models[i] \in failing
    THEN CHOOSE i \in DOMAIN loaded_models :
            /\ loaded_models[i] \in failing
            /\ \A j \in 1..(i - 1) : loaded_models[j] \notin failing
    ELSE Len(loaded_models) + 1

unload_all(failing) ==
    LET k == first_failing(failing)
        reached == {loaded_models[i] : i \in {j \in DOMAIN loaded_models : j <= k}}
    IN  /\ loaded_models # <<>>
        /\ \A m \in reached : loaders[m].unload_calls < MaxCalls
        /\ loaders' = [m \in DOMAIN loaders |->
                         IF m \in reached
                         THEN [loaders[m] EXCEPT !.unload_calls = @ + 1]
                         ELSE loaders[m]]
        /\ loaded_models' = SubSeq(loaded_models, k, Len(loaded_models))
        /\ vlog' = [op |-> "unload_all", name |-> "",
                    calls |-> [i \in 1..(2 * (k - 1)) |->
                                 IF i % 2 = 1 THEN "unload" ELSE "cleanup"]
                              \o (IF k <= Len(loaded_models) THEN <<"unload">> ELSE <<>>),
                    raised |-> k <= Len(loaded_models)]
        /\ UNCHANGED <<orchVars, gateVars, sup, call, wsVars>>

\* cleanup: empty_cache and gc.collect; the registry is not touched
cleanup ==
    /\ vlog' = [op |-> "cleanup", name |-> "", calls |-> <<>>, raised |-> FALSE]
    /\ UNCHANGED <<loaded_models, loaders>>
    /\ UNCHANGED <<orchVars, gateVars, sup, call, wsVars>>

\* the manager's methods called on their own: no Step Unit is executing
NextVram ==
    \/ \E name \in Models, low \in BOOLEAN, ok \in BOOLEAN :
          load_model(name, low, ok) /\ UNCHANGED <<stepVars, judgeVars, planVars, loopVars>>
    \/ \E name \in Models, ok \in BOOLEAN :
          unload_model(name, ok) /\ UNCHANGED <<stepVars, judgeVars, planVars, loopVars>>
    \/ \E failing \in SUBSET Models : unload_all(failing) /\ UNCHANGED <<stepVars, judgeVars, planVars, loopVars>>
    \/ cleanup /\ UNCHANGED <<stepVars, judgeVars, planVars, loopVars>>

SpecVram == Init /\ [][NextVram]_vars

\* ------------------------------------- pipeline/step{1,2,3}_*.py: execute
\* the name the execute in progress is working on
current == exec.todo[exec.sub]

enter_except(e) == [e EXCEPT !.at = "except", !.ex = 1]

\* execute is called on a manager no execute is using; fresh is whether the
\* executor object was just constructed (tools/*.py) or is kept between calls
\* (graph.py), enabled is the models the config enables (both of step1 and
\* step2, any of rife and real_cugan for step3), bad is a raise before the
\* first load_model
execute_begin(step, fresh, enabled, bad) ==
    LET todo == SelectSeq(ModelsOf(step), LAMBDA m : m \in enabled)
        held == IF fresh THEN exec.held \ Range(ModelsOf(step)) ELSE exec.held
        e == [step |-> step, at |-> "load", todo |-> todo, sub |-> 1, ex |-> 0,
              held |-> held, runs |-> exec.runs + 1]
    IN  /\ exec.at \in {"idle", "returned", "raised"}
        /\ exec.runs < MaxExecutes
        /\ step = "step3" \/ enabled = Range(ModelsOf(step))
        /\ exec' = IF bad THEN enter_except(e)
                   ELSE IF todo = <<>> THEN [e EXCEPT !.at = "encode"]
                   ELSE e
        /\ UNCHANGED <<orchVars, gateVars, sup, call, wsVars, vramVars, judgeVars, planVars, loopVars>>

\* self.loader = Loader(); self.vram_manager.load_model(name, self.loader)
execute_load(low, ok) ==
    /\ exec.at = "load"
    /\ load_model(current, low, ok)
    /\ UNCHANGED <<judgeVars, planVars, loopVars>>
    /\ exec' = IF vlog'.raised
               THEN enter_except([exec EXCEPT !.held = @ \cup {current}])
               ELSE [exec EXCEPT !.held = @ \cup {current}, !.at = "work"]

\* the loader's segment / generate_video / interpolate_video / upscale_video,
\* with the saving of its output
execute_work(ok) ==
    /\ exec.at = "work"
    /\ exec' = IF ok THEN [exec EXCEPT !.at = "unload"] ELSE enter_except(exec)
    /\ UNCHANGED <<orchVars, gateVars, sup, call, wsVars, vramVars, judgeVars, planVars, loopVars>>

\* self.vram_manager.unload_model(name) on the way to the return; the unload()
\* of the four loaders deletes the pipeline and empties the cache
execute_unload ==
    /\ exec.at = "unload"
    /\ unload_model(current, TRUE)
    /\ UNCHANGED <<judgeVars, planVars, loopVars>>
    /\ exec' = IF exec.sub < Len(exec.todo)
               THEN [exec EXCEPT !.sub = @ + 1, !.at = "load"]
               ELSE IF exec.step = "step3" THEN [exec EXCEPT !.at = "encode"]
               ELSE [exec EXCEPT !.at = "returned"]

\* step3's two ffmpeg runs (subprocess.run with check=True)
execute_encode(ok) ==
    /\ exec.at = "encode"
    /\ exec' = IF ok THEN [exec EXCEPT !.at = "returned"] ELSE enter_except(exec)
    /\ UNCHANGED <<orchVars, gateVars, sup, call, wsVars, vramVars, judgeVars, planVars, loopVars>>

\* variant: the except block logs and re-raises without unloading
execute_except_reraises ==
    /\ exec.at = "except"
    /\ exec' = [exec EXCEPT !.at = "raised"]
    /\ UNCHANGED <<orchVars, gateVars, sup, call, wsVars, vramVars, judgeVars, planVars, loopVars>>

\* the except block: for each loader attribute that is set, unload_model of
\* its name, then raise
execute_except ==
    LET name == ModelsOf(exec.step)[exec.ex]
    IN  /\ exec.at = "except"
        /\ IF name \in exec.held
           THEN unload_model(name, TRUE) /\ UNCHANGED <<judgeVars, planVars, loopVars>>
           ELSE UNCHANGED <<orchVars, gateVars, sup, call, wsVars, vramVars, judgeVars, planVars, loopVars>>
        /\ exec' = IF exec.ex < Len(ModelsOf(exec.step))
                   THEN [exec EXCEPT !.ex = @ + 1]
                   ELSE [exec EXCEPT !.at = "raised"]

NextSteps ==
    \/ \E step \in StepUnits, fresh \in BOOLEAN, enabled \in SUBSET StepModels,
          bad \in BOOLEAN : execute_begin(step, fresh, enabled, bad)
    \/ \E low \in BOOLEAN, ok \in BOOLEAN : execute_load(low, ok)
    \/ \E ok \in BOOLEAN : execute_work(ok)
    \/ execute_unload
    \/ \E ok \in BOOLEAN : execute_encode(ok)
    \/ execute_except

SpecSteps == Init /\ [][NextSteps]_vars

\* ------------------------------------------------------------------------
\* Properties

\* task t left QC node `node` with a verdict in this step
Evaluated(t, node) == pc[t] = node /\ pc'[t] \notin {node, "raised"}

\* C1: under every interleaving of create_task, run, submit_feedback and
\* resume (a submit_feedback that arrives while the run of the instance has
\* not returned included) at most one Step Unit of the instance is in flight
C1_OneStepUnitInFlight == Cardinality(InFlight) <= 1

\* C2: whatever verdicts the judgment returns, the retry counter of a step
\* never exceeds the retry ceiling
C2_RetryCounterBounded == \A s \in ReflSteps : retry_count[s] <= RetryCeiling

\* C3: a step evaluated while its retry counter is already 2 or more gets the
\* verdict escalate, whatever the judgment says: the retry is neither
\* accepted (the step is not routed back) nor counted
C3_EscalateAtTwo ==
    [][\A t \in Tasks :
        /\ (Evaluated(t, "qc_segmentation") /\ retry_count["segmentation"] >= EscalateAt)
             => /\ pc'[t] # "segmentation"
                /\ ckpt'.next = "human_input"
                /\ retry_count'["segmentation"] <= retry_count["segmentation"]
        /\ (Evaluated(t, "qc_video") /\ retry_count["video_generation"] >= EscalateAt)
             => /\ pc'[t] # "video_gen"
                /\ ckpt'.next = "human_input"
                /\ retry_count'["video_generation"] <= retry_count["video_generation"]
      ]_vars

\* C4: a retry whose patch equals the latest recorded one is rejected, so no
\* two consecutive entries of a step's retry history are equal
C4_NoConsecutiveDuplicates ==
    \A s \in ReflSteps : \A i \in 1..(Len(retry_history[s]) - 1) :
        retry_history[s][i] # retry_history[s][i + 1]

\* C5: submit_feedback on an instance whose status is not paused changes
\* nothing: the status is not rewritten, human_input_received is not
\* published and no resume task is started
C5_FeedbackNeedsPaused ==
    [][(feedbackCalls' # feedbackCalls /\ status.status # "paused")
        => /\ status' = status
           /\ lastHumanEvent' = lastHumanEvent
           /\ pc' = pc
      ]_vars

\* C6: the status leaves paused only by a submit_feedback
C6_PausedLeftByFeedbackOnly ==
    [][(status.status = "paused" /\ status'.status # "paused")
        => feedbackCalls' = feedbackCalls + 1
      ]_vars

\* C7: while the status is paused the human_input_request is published and
\* unanswered and no Step Unit of the instance executes
C7_PausedIsQuiescent ==
    status.status = "paused" =>
        /\ lastHumanEvent = "request"
        /\ \A t \in Tasks : pc[t] \notin StepExec

\* C8: a Step Unit that failed hard goes through the gate like any other
\* result: when its QC node routes it back to the step, the retry was counted
C8_HardFailureGated ==
    [][\A t \in Tasks :
        /\ (pc[t] = "qc_segmentation" /\ ~gs[t].main_layer /\ pc'[t] = "segmentation")
             => retry_count'["segmentation"] = retry_count["segmentation"] + 1
        /\ (pc[t] = "qc_video" /\ (gs[t].error # "none" \/ ~gs[t].raw_video)
              /\ pc'[t] = "video_gen")
             => retry_count'["video_generation"] = retry_count["video_generation"] + 1
      ]_vars

\* C9: a judgment that is no structured verdict (unparseable output, or the
\* call raises) gives the verdict proceed and the instance goes on to the
\* next step; it neither stalls nor fails
C9_MalformedJudgmentProceeds ==
    [][\A t \in Tasks :
        /\ (pc[t] = "qc_segmentation" /\ pc'[t] # pc[t] /\ verdict'.judged # "object")
             => verdict'.decision = "proceed" /\ pc'[t] = "video_gen"
        /\ (pc[t] = "qc_video" /\ pc'[t] # pc[t] /\ gs[t].raw_video
              /\ gs[t].error = "none" /\ verdict'.judged # "object")
             => verdict'.decision = "proceed" /\ pc'[t] = "postprocess"
      ]_vars

\* C10: after the supervisor's verdict on a step, retry runs that step again
\* and proceed runs the step after it: none is skipped, no earlier one is
\* re-run and the graph does not end early
C10_VerdictDecidesNextStep ==
    [][(sup.node = "supervisor" /\ sup'.node # "supervisor")
        => /\ sup'.decision = "retry" => sup'.node = sup.current_step
           /\ sup'.decision = "proceed" => sup'.node = get_default_next(sup.current_step)
      ]_vars

\* C11: the status becomes completed only when the last step has produced
\* its result and nothing is pending: the graph has reached its end with a
\* final video, and no human request is waiting for an answer
C11_CompletedOnlyAtEnd ==
    [][(status'.status = "completed" /\ status.status # "completed")
        => /\ ckpt'.next = "END"
           /\ ckpt'.vals.final_video
           /\ lastHumanEvent' # "request"
      ]_vars

\* the config hash field of a patch entry
field(e) == e.cat \o ":" \o e.key

\* the latest entry of a step's retry history
last_patch(s) == retry_history[s][Len(retry_history[s])]

C13_OverridesStayInCategory ==
    [][(call' # call)
        => \A e \in call'.kwargs :
              \/ e \in ToolKwargs(call'.tool)
              \/ /\ (call'.tool \o ":" \o e.key) \in ConfigFields
                 /\ overrides[call'.tool \o ":" \o e.key] = StrOf(e.val)
      ]_vars

\* video_generation_tool and postprocess_tool ran with what their callers
\* passed while an override of segmentation was stored
C13_Witness ==
    /\ overrides["segmentation:resolution"] # ""
    /\ overrides["video_generation:num_frames"] = ""
    /\ call.tool \in {"video_generation", "postprocess"}
    /\ call.kwargs = ToolKwargs(call.tool)

\* C14: every retry verdict for a step appends the verdict's patch to the
\* step's history, adds exactly one to the step's retry counter and writes
\* every category.key of the patch to the override map with the patch's value
C14_RetryHasThreeEffects ==
    [][\A s \in ReflSteps, out \in JudgeOutputs :
        (reflect(s, out) /\ ~reflection_raises(out) /\ reflection_decision(out) = "retry")
          => /\ retry_count'[s] = retry_count[s] + 1
             /\ Len(retry_history'[s]) = Len(retry_history[s]) + 1
             /\ out.patch.kind = "dict" =>
                  /\ retry_history'[s] = Append(retry_history[s], out.patch.entries)
                  /\ \A e \in out.patch.entries : overrides'[field(e)] = StrOf(e.val)
      ]_vars

C16_SnapshotFirst ==
    \A c \in Subscribers : \A i \in DOMAIN ws[c].sent :
        ws[c].sent[i].kind = "event"
          => /\ \E j \in 1..(i - 1) : ws[c].sent[j].kind = "snapshot"
             /\ \A j \in 1..(i - 1) :
                   ws[c].sent[j].kind # "ping" => ws[c].sent[j].seq < ws[c].sent[i].seq

\* C17: an event has one sequence number, assigned at publish: two
\* connections that deliver the same event deliver it with the same seq
C17_SeqBelongsToEvent ==
    \A c \in Subscribers, d \in Subscribers :
        \A i \in DOMAIN ws[c].sent, j \in DOMAIN ws[d].sent :
            (ws[c].sent[i].kind = "event" /\ ws[d].sent[j].kind = "event"
               /\ ws[c].sent[i].ev = ws[d].sent[j].ev)
              => ws[c].sent[i].seq = ws[d].sent[j].seq

\* C18: a connection delivers the events in the order they were published,
\* with strictly increasing seq, pings in between or not
C18_DeliveredInPublishOrder ==
    \A c \in Subscribers : \A i \in DOMAIN ws[c].sent, j \in DOMAIN ws[c].sent :
        (i < j /\ ws[c].sent[i].kind = "event" /\ ws[c].sent[j].kind = "event")
          => /\ ws[c].sent[i].seq < ws[c].sent[j].seq
             /\ ws[c].sent[i].ev < ws[c].sent[j].ev

\* a connection delivered an event, a ping and a later event
C18_Witness ==
    \E c \in Subscribers : \E i \in DOMAIN ws[c].sent :
        /\ i + 2 \in DOMAIN ws[c].sent
        /\ ws[c].sent[i].kind = "event"
        /\ ws[c].sent[i + 1].kind = "ping"
        /\ ws[c].sent[i + 2].kind = "event"

\* C19: load_model of a name that is registered (a load_model of it came
\* before, with no unload_model in between) calls no load() and leaves the
\* registry as it is: the two calls together trigger one load()
C19_LoadIsIdempotent ==
    [][\A name \in Models, low \in BOOLEAN, ok \in BOOLEAN :
        (load_model(name, low, ok) /\ name \in Range(loaded_models))
          => /\ loaders' = loaders
             /\ loaded_models' = loaded_models
             /\ vlog'.calls = <<>>
      ]_vars

\* load_model ran for a registered name whose loader was loaded once
C19_Witness ==
    /\ vlog.op = "load_model" /\ vlog.calls = <<>>
    /\ vlog.name \in Range(loaded_models)
    /\ loaders[vlog.name].load_calls = 1
    /\ loaders[vlog.name].unload_calls = 0

\* C20: with capacity for one unit, loading B while A is registered and
\* memory is short evicts A before B is loaded: the registry is exactly {B}
\* afterwards and never holds more than capacity allows
C20_CapacityOfOne ==
    [][\A name \in Models :
        (load_model(name, TRUE, TRUE) /\ loaded_models # <<>>
           /\ name \notin Range(loaded_models))
          => loaded_models' = <<name>>
      ]_vars

\* C21: unload_model of a name that is not registered calls no loader's
\* unload() and leaves the registry as it was
C21_UnloadOfInactiveIsNoOp ==
    [][\A name \in Models, ok \in BOOLEAN :
        (unload_model(name, ok) /\ name \notin Range(loaded_models))
          => /\ loaders' = loaders
             /\ loaded_models' = loaded_models
             /\ vlog'.calls = <<>>
             /\ ~vlog'.raised
      ]_vars

\* an unload_model of an unregistered name has returned while another model
\* is registered
C21_Witness ==
    /\ vlog.op = "unload_model" /\ vlog.calls = <<>>
    /\ vlog.name \notin Range(loaded_models)
    /\ loaded_models # <<>>
    /\ loaders[vlog.name].unload_calls = 0

\* C22: unload_model of a registered name that returns has called the
\* loader's unload() exactly once, then cleanup(), and the name is no longer
\* registered; every other registered name stays
C22_UnloadThenCleanup ==
    [][\A name \in Models :
        (unload_model(name, TRUE) /\ name \in Range(loaded_models))
          => /\ loaders'[name].unload_calls = loaders[name].unload_calls + 1
             /\ \A m \in Models \ {name} : loaders'[m] = loaders[m]
             /\ vlog'.calls = <<"unload", "cleanup">>
             /\ name \notin Range(loaded_models')
             /\ Range(loaded_models') = Range(loaded_models) \ {name}
      ]_vars

\* an unload_model of a registered name has returned, with another model
\* still registered
C22_Witness ==
    /\ vlog.op = "unload_model" /\ ~vlog.raised
    /\ vlog.calls = <<"unload", "cleanup">>
    /\ vlog.name \notin Range(loaded_models)
    /\ loaded_models # <<>>

C24_RequestMeansPaused ==
    lastHumanEvent = "request" => status.status = "paused"

\* C25: every human_input_request published carries a question that is a
\* non-empty text, never null
C25_QuestionIsText ==
    lastHumanEvent = "request" => question \notin {"none", "null", ""}

\* the results accumulated in a graph state
results(vals) == <<vals.main_layer, vals.raw_video, vals.final_video>>

step_after(step) == IF step = "segmentation" THEN "video_gen" ELSE "postprocess"

C27_FailurePublished ==
    [][(status'.status = "failed" /\ status.status # "failed")
        => lastEvent' = "error"
      ]_vars

C29_PlanReturnsFeedback ==
    (plan.at = "returned" /\ plan.response.kind = "user_response")
      => plan.response.feedback = plan.submitted

\* C30: in the supervisor node a retry verdict adds exactly one to the
\* counter of the current step and leaves the other counters alone, any other
\* verdict leaves all counters alone, a config_patch given with the verdict is
\* in state.config when the node returns, and the step nodes change neither
\* the counters nor the config, so each counter equals the number of retry
\* verdicts issued for its step and the patch is there when the next node runs
C30_SupervisorCountsRetries ==
    [][/\ \A resp \in SupResponses :
            supervisor_node(resp) =>
              LET decision == reflect_and_route(sup, resp)
                  step == sup.current_step
              IN  /\ sup'.retry_count[step] =
                        sup.retry_count[step] + (IF decision.decision = "retry" THEN 1 ELSE 0)
                  /\ \A o \in DOMAIN sup.retry_count \ {step} :
                        sup'.retry_count[o] = sup.retry_count[o]
                  /\ decision.patch.kind = "dict"
                        => decision.patch.entries \subseteq sup'.config
       /\ \A ok \in BOOLEAN :
            (node_step1(ok) \/ node_step2(ok) \/ node_step3(ok))
              => /\ sup'.retry_count = sup.retry_count
                 /\ sup'.config = sup.config
      ]_vars

\* step2 is about to run again after two retry verdicts, the patch in its
\* config, while step1 was never retried
C30_Witness ==
    /\ sup.node = "step2" /\ sup.current_step = "step2"
    /\ sup.decision = "retry"
    /\ sup.retry_count["step2"] = 2 /\ sup.retry_count["step1"] = 0
    /\ P_res \subseteq sup.config

\* C31: load_model of a name that is not registered, with free memory below
\* free_gb_required, runs one cleanup() and then loader.load(), once each
\* and in this order; when the call returns the name is registered and the
\* names registered before it still are
C31_CleanupThenLoad ==
    [][\A name \in Models :
        (load_model(name, TRUE, TRUE) /\ name \notin Range(loaded_models))
          => /\ vlog'.calls = <<"cleanup", "load">>
             /\ loaders'[name].load_calls = loaders[name].load_calls + 1
             /\ \A m \in Models \ {name} : loaders'[m] = loaders[m]
             /\ name \in Range(loaded_models')
             /\ Range(loaded_models') = Range(loaded_models) \cup {name}
      ]_vars

\* a load_model under low memory has returned with its name registered next
\* to an earlier one
C31_Witness ==
    /\ vlog.op = "load_model" /\ ~vlog.raised
    /\ vlog.calls = <<"cleanup", "load">>
    /\ vlog.name \in Range(loaded_models)
    /\ Len(loaded_models) = 2

\* C32: a decorated tool is called with every override stored for its
\* category, coerced to the type of the parameter: an int for an integer
\* parameter, a bool for a boolean one, the stored string otherwise, whether
\* the caller passed the parameter or left it out
C32_OverrideCoerced ==
    [][\A tool \in Tools : \A passed \in SUBSET Signature(tool) :
        agent_invokes(tool, passed)
          => \A f \in ConfigFields :
                (overrides[f] # "" /\ split(f).cat = tool)
                  => LET key == split(f).key
                         type == ParamType(tool, key)
                         coerced == IF type = "int" THEN int(overrides[f])
                                    ELSE IF type = "bool"
                                         THEN BoolV(overrides[f] \in {"true", "True"})
                                    ELSE StrV(overrides[f])
                     IN  [key |-> key, val |-> coerced] \in call'.kwargs
      ]_vars

C34_CounterIsHistoryLength ==
    \A step \in ReflSteps : retry_count[step] = Len(retry_history[step])

\* C35: a planning_tool that was polling when submit_feedback was called
\* observes the status feedback_received and returns a user response,
\* whatever the resume task started by the same call does in between
C35_FeedbackObserved ==
    (plan.at = "returned" /\ plan.submitted # "none")
      => plan.response.kind = "user_response"

\* C36: when loader.load() raises inside load_model the error leaves
\* load_model and the registry is as it was before the call, the name not
\* registered; the next load_model of that name calls load() again
C36_FailedLoadNotRegistered ==
    [][\A name \in Models, low \in BOOLEAN :
        /\ (load_model(name, low, FALSE) /\ name \notin Range(loaded_models))
             => /\ vlog'.raised
                /\ loaded_models' = loaded_models
                /\ name \notin Range(loaded_models')
        /\ \A ok \in BOOLEAN :
             (vlog.op = "load_model" /\ vlog.raised /\ vlog.name = name
                /\ load_model(name, low, ok))
               => /\ vlog'.calls # <<>>
                  /\ vlog'.calls[Len(vlog'.calls)] = "load"
                  /\ loaders'[name].load_calls = loaders[name].load_calls + 1
      ]_vars

\* a load_model has returned with its name registered after an earlier
\* load_model of the same name had raised
C36_Witness ==
    /\ vlog.op = "load_model" /\ ~vlog.raised
    /\ vlog.calls # <<>>
    /\ vlog.name \in Range(loaded_models)
    /\ loaders[vlog.name].load_calls = 2
    /\ loaders[vlog.name].unload_calls = 0

\* C37: the events a connection has delivered, followed by those waiting in
\* its subscription, are the events published since it subscribed, each
\* once and in order; the delivered ones carry the seq values that follow
\* the snapshot's (1, 2, ... when no snapshot was sent) without gap or
\* repeat, and a ping carries no seq and uses none
C37_ExactlyOnceConsecutive ==
    \A c \in Subscribers :
        LET delivered == SelectSeq(ws[c].sent, LAMBDA m : m.kind = "event")
            base == IF \E i \in DOMAIN ws[c].sent : ws[c].sent[i].kind = "snapshot"
                    THEN 1 ELSE 0
            got == [i \in 1..Len(delivered) |-> delivered[i].ev] \o ws[c].inbox
        IN  /\ \A i \in 1..Len(delivered) : delivered[i].seq = base + i
            /\ \A i \in 1..Len(got) : got[i] = ws[c].since + i
            /\ ws[c].pc \in {"subscribed", "listening"}
                  => ws[c].since + Len(got) = published
            /\ ws[c].seq_id = base + Len(delivered)

\* a connection sent a snapshot and then delivered the two events published
\* since it subscribed, with a ping on the way
C37_Witness ==
    \E c \in Subscribers :
        /\ Len(ws[c].sent) = 4
        /\ ws[c].sent[1].kind = "snapshot"
        /\ \E i \in 2..4 : ws[c].sent[i].kind = "ping"
        /\ ws[c].sent[4] = Event(3, ws[c].since + 2)
        /\ ws[c].since = 0

\* C38: the num_frames video_generation_tool ends up with, its argument or
\* the stored override video_generation:num_frames, is the number of frames
\* Step2VideoGeneration.execute generates
C38_NumFramesUsed ==
    call.tool = "video_generation"
      => call.generated = argument(call.tool, call.kwargs, "num_frames").i

\* C39: once the status record says completed and holds the output
\* reference (output_path, thumbnail_path), no later write changes it: every
\* later get_status returns completed with the same reference
C39_OutputReferenceKept ==
    [][status = set_status("completed", "output_path") => status' = status]_vars

====
